---- MODULE Spec2Model ----
(***************************************************************************)
(* Model of the 4CAT search-query worker (backend/abstract/string_query.py) *)
(* StringQuery.work() and its three executors, with the Sphinx index, the  *)
(* relational store, the DataSet row and the job as its environment; of    *)
(* the local API server (backend/lib/api.py); and of the migration agent   *)
(* (helper-scripts/migrate.py).  Each program has its own specification.   *)
(***************************************************************************)
EXTENDS Integers, Sequences, FiniteSets, TLC

(***************************************************************************)
(* Bounds of the model.                                                    *)
(***************************************************************************)
\* number of posts in the relational store / index fixture
NumPosts == 3
\* largest num_replies a thread row can hold
MaxReplies == 2
\* how many times the queue delivers the same job to work()
MaxDeliveries == 2

(***************************************************************************)
(* Values.                                                                 *)
(***************************************************************************)
\* return_cols, the columns of a full row (string_query.py:36-37)
return_cols ==
  <<"thread_id", "id", "timestamp", "body", "subject", "author", "image_file",
    "image_md5", "country_code", "country_name">>

\* country codes selectable as "europe" (string_query.py:264-267)
EuropeCodes ==
  {"GB", "DE", "NL", "RU", "FI", "FR", "RO", "PL", "SE", "NO", "ES", "IE", "IT",
   "SI", "RS", "DK", "HR", "GR", "BG", "BE", "AT", "HU", "CH", "PT", "LT", "CZ",
   "EE", "UY", "LV", "SK", "MK", "UA", "IS", "BA", "CY", "GE", "LU", "ME", "AL",
   "MD", "IM", "EU", "BY", "MC", "AX", "KZ", "AM", "GG", "JE", "MT", "FO", "AZ",
   "LI", "AD"}

\* status texts written with DataSet.update_status
StatusWriting == "Writing posts to result file"
StatusAvailable == "Query finished, results are available."
StatusNoResults == "Query finished, no results found."
StatusSearching == "Searching for matches"
StatusFound(n) == "Found " \o ToString(n) \o " matches. Collecting post data"
StatusTimeout ==
  "Your query timed out. This is likely because it matches too many posts. Try again with a narrower date range or a more specific search query."
StatusCrash == "Error during query. 4CAT admins have been notified; try again later."
StatusNoMatches == "Query finished, but no results were found."
StatusCollected == "Post data collected"
StatusFiltering == "Post data collected. Filtering dense threads"
StatusRandom == "Fetching random posts"
StatusCountry == "Querying database for country-specific posts"
StatusCountryFound(n) ==
  "Post data collected. " \o ToString(n) \o " country-specific posts found."

\* Python's None and a list, as the value of `posts`
None == [isNone |-> TRUE, rows |-> <<>>]
List(rows) == [isNone |-> FALSE, rows |-> rows]
\* Python truthiness of `posts` (None and [] are falsy)
Truthy(p) == ~p.isNone /\ p.rows # <<>>

(***************************************************************************)
(* The archive: post i of the relational store and of the index.           *)
(***************************************************************************)
PostIds == 1..NumPosts
Post(i) ==
  [thread_id |-> (i + 1) \div 2, id |-> i, timestamp |-> i,
   country_code |-> IF i % 2 = 1 THEN "FR" ELSE "US"]
ThreadIds == {Post(i).thread_id : i \in PostIds}

\* the sequences without repetition over a finite set S
RECURSIVE Perms(_)
Perms(S) ==
  IF S = {} THEN {<<>>}
  ELSE UNION {{<<x>> \o p : p \in Perms(S \ {x})} : x \in S}
\* the rows a store query can hand back for a set of ids: SQL without
\* ORDER BY and the adapter's fetch_* give the rows in any order
RowsInAnyOrder(ids) == {[k \in DOMAIN p |-> Post(p[k])] : p \in Perms(ids)}

\* the elements of a sequence
Range(s) == {s[k] : k \in DOMAIN s}
\* list comprehension [row[col] for row in rows]
Column(rows, col) == [k \in DOMAIN rows |-> rows[k][col]]

(***************************************************************************)
(* Query parameters (DataSet.get_parameters()), a dict: a function from    *)
(* the keys that are present to their values.                              *)
(***************************************************************************)
Has(q, key) == key \in DOMAIN q
Drop(q, keys) == [k \in DOMAIN q \ keys |-> q[k]]
Merge(q, r) == [k \in DOMAIN q \cup DOMAIN r |-> IF k \in DOMAIN q THEN q[k] ELSE r[k]]

\* a body or subject predicate is a string, held as its characters
BodyQueries == {<<>>, <<"a", "/">>}

\* the values every key takes in a job that does not vary it
Defaults ==
  [min_date |-> 0, max_date |-> 0, board |-> "*", body_query |-> <<>>,
   subject_query |-> <<>>, full_thread |-> FALSE, dense_threads |-> FALSE,
   dense_percentage |-> 50, dense_length |-> 0, dense_country_percentage |-> 0]

\* min_date and max_date, without the keys of `absent`
DateOptions(absent) ==
  {Drop(d, A) : d \in [min_date : {0, 2}, max_date : {0, 2}],
                A \in SUBSET ({"max_date"} \cap absent)}
\* the keys that decide the executor; random_amount and country_flag may be absent
Selections ==
  {Drop(s, A) : s \in [random_amount : {0, 1}, country_flag : {"all", "FR", "europe"},
                       body_query : BodyQueries],
                A \in SUBSET {"random_amount", "country_flag"}}
\* the keys only execute_string_query reads
StringOptions ==
  {Merge(o, t) :
     o \in [body_query : BodyQueries, full_thread : BOOLEAN, dense_threads : BOOLEAN,
            dense_length : {0, 2}],
     t \in {[board |-> "*", subject_query |-> <<>>],
            [board |-> "pol", subject_query |-> <<"s">>]}}
\* the keys only execute_country_query reads, without the keys of `absent`
CountryOptions(absent) ==
  {Drop(c, A) : c \in [country_flag : {"FR", "europe"}, dense_country_percentage : {0, 80}],
                A \in SUBSET ({"dense_country_percentage"} \cap absent)}

\* The parameter sets a job is delivered with: every combination of the keys
\* that decide the executor, and for each executor every combination of the
\* keys it reads; the other keys keep their default.  The keys of `absent`
\* are missing from some of the jobs.
JobParams(absent) ==
  LET selectionJobs == {Merge(s, Defaults) : s \in Selections}
      stringJobs ==
        {Merge(Merge(o, d), Drop(Defaults, {"max_date"})) :
           o \in StringOptions, d \in DateOptions(absent)}
      randomJobs ==
        {Merge(Merge([random_amount |-> 1], d), Drop(Defaults, {"max_date"})) :
           d \in DateOptions(absent)}
      countryJobs ==
        {Merge(Merge(c, d), Drop(Defaults, {"max_date", "dense_country_percentage"})) :
           c \in CountryOptions(absent), d \in DateOptions(absent)}
  IN selectionJobs \cup stringJobs \cup randomJobs \cup countryJobs

\* the jobs the front-end queues: it sets every key but random_amount and
\* country_flag, which work() tests with `in`
Params == JobParams({})
\* jobs that also lack the keys the executors read without such a test
ParamsLackingKeys == JobParams({"max_date", "dense_country_percentage"})

(***************************************************************************)
(* escape_for_sphinx (string_query.py:389-400)                             *)
(***************************************************************************)
\* the character class of the regular expression
SphinxSpecial ==
  {"=", "(", ")", "|", "-", "!", "@", "~", "\"", "&", "/", "\\", "^", "$"}

\* only "/" escaped
RECURSIVE escape_for_sphinx_slash_only(_)
escape_for_sphinx_slash_only(string) ==
  IF string = <<>> THEN <<>>
  ELSE (IF Head(string) = "/"
          THEN <<"\\", Head(string)>>
          ELSE <<Head(string)>>) \o escape_for_sphinx_slash_only(Tail(string))

RECURSIVE escape_for_sphinx(_)
escape_for_sphinx(string) ==
  IF string = <<>> THEN <<>>
  ELSE (IF Head(string) \in SphinxSpecial
          THEN <<"\\", Head(string)>>
          ELSE <<Head(string)>>) \o escape_for_sphinx(Tail(string))

(***************************************************************************)
(* The Sphinx query execute_string_query builds (string_query.py:113-145)  *)
(***************************************************************************)
\* sep.join(parts) for strings held as character sequences
RECURSIVE JoinChars(_, _)
JoinChars(parts, sep) ==
  IF parts = <<>> THEN <<>>
  ELSE IF Len(parts) = 1 THEN parts[1]
  ELSE parts[1] \o sep \o JoinChars(Tail(parts), sep)
\* sep.join(parts) for strings
RECURSIVE Join(_, _)
Join(parts, sep) ==
  IF parts = <<>> THEN ""
  ELSE IF Len(parts) = 1 THEN parts[1]
  ELSE parts[1] \o sep \o Join(Tail(parts), sep)

\* the MATCH() argument: "@body ..." and "@subject ...", escaped, joined by " "
SphinxMatch(query) ==
  JoinChars(
    (IF query.body_query # <<>>
       THEN <<<<"@", "b", "o", "d", "y", " ">> \o escape_for_sphinx(query.body_query)>>
       ELSE <<>>)
    \o
    (IF query.subject_query # <<>>
       THEN <<<<"@", "s", "u", "b", "j", "e", "c", "t", " ">>
               \o escape_for_sphinx(query.subject_query)>>
       ELSE <<>>),
    <<" ">>)

\* the WHERE text handed to fetch_sphinx
SphinxWhere(query) ==
  Join(
    (IF query.min_date # 0 THEN <<"timestamp >= %s">> ELSE <<>>)
    \o (IF query.max_date # 0 THEN <<"timestamp <= %s">> ELSE <<>>)
    \o (IF query.board # "" /\ query.board # "*" THEN <<"board = %s">> ELSE <<>>)
    \o (IF SphinxMatch(query) # <<>> THEN <<"MATCH(%s)">> ELSE <<>>),
    " AND ")

\* the replacements handed to fetch_sphinx, each tagged with its kind
SphinxReplacements(query) ==
  (IF query.min_date # 0 THEN <<[int |-> query.min_date]>> ELSE <<>>)
  \o (IF query.max_date # 0 THEN <<[int |-> query.max_date]>> ELSE <<>>)
  \o (IF query.board # "" /\ query.board # "*" THEN <<[str |-> query.board]>> ELSE <<>>)
  \o (IF SphinxMatch(query) # <<>> THEN <<[chars |-> SphinxMatch(query)]>> ELSE <<>>)

(***************************************************************************)
(* DenseFilter: filter_dense and filter_dense_country                      *)
(* (string_query.py:311-387)                                               *)
(***************************************************************************)
\* Counter(thread_ids)[id]
Counter(thread_ids, id) == Cardinality({k \in DOMAIN thread_ids : thread_ids[k] = id})

\* `>` in place of `>=`
DenseEnoughStrict(matches, num_replies, percentage) ==
  matches * 100 > percentage * num_replies

\* thread_density >= float(percentage), with
\* thread_density = float(matches / num_replies * 100) and num_replies # 0;
\* for the reply counts and percentages of this model the floating-point
\* value compares as the exact quotient does
DenseEnough(matches, num_replies, percentage) ==
  matches * 100 >= percentage * num_replies

\* the "SELECT id, num_replies FROM threads_..." rows: one row per distinct
\* thread id asked for, in any order, with any reply count
ThreadRows(thread_ids) ==
  UNION {{[k \in DOMAIN p |-> [id |-> p[k], num_replies |-> n[p[k]]]] :
            p \in Perms(Range(thread_ids))} :
         n \in [Range(thread_ids) -> 0..MaxReplies]}

\* the loop of filter_dense over total_posts: the qualified thread ids, or
\* ZeroDivisionError at a row that passes the length test with 0 replies
filter_dense(thread_ids, total_posts, percentage, length) ==
  LET long(row) == row.num_replies >= length
      qualified(row) ==
        long(row) /\ DenseEnough(Counter(thread_ids, row.id), row.num_replies, percentage)
  IN IF \E k \in DOMAIN total_posts : long(total_posts[k]) /\ total_posts[k].num_replies = 0
       THEN [raised |-> "ZeroDivisionError", value |-> <<>>]
       ELSE [raised |-> "none", value |-> Column(SelectSeq(total_posts, qualified), "id")]

\* the loop of filter_dense_country: as filter_dense, without the length test
filter_dense_country(thread_ids, total_posts, percentage) ==
  LET qualified(row) ==
        DenseEnough(Counter(thread_ids, row.id), row.num_replies, percentage)
  IN IF \E k \in DOMAIN total_posts : total_posts[k].num_replies = 0
       THEN [raised |-> "ZeroDivisionError", value |-> <<>>]
       ELSE [raised |-> "none", value |-> Column(SelectSeq(total_posts, qualified), "id")]

(***************************************************************************)
(* State.                                                                  *)
(***************************************************************************)
VARIABLES
  pc,           \* where the worker is in work() and its executors
  deliveries,   \* how many times the job was handed to work()
  queryExists,  \* the DataSet row the job's remote_id names exists
  isFinished,   \* DataSet.is_finished()
  status,       \* the DataSet's status text
  numRows,      \* the DataSet's row count
  resultsFile,  \* the result artifact: [exists, rows]
  params,       \* DataSet.get_parameters()
  sphinx,       \* self.sphinx: "none", "open" or "closed"
  posts,        \* work()'s local `posts`: None or a list
  matches,      \* the executor's rows from the index or the initial query
  ids,          \* the executor's post_ids or thread_ids
  fault,        \* the exception that left work(), or "none"
  calls,        \* the calls made during this delivery, in order
  api,          \* the InternalAPI thread (backend/lib/api.py): its fields and locals
  migrate       \* a run of the migration agent (helper-scripts/migrate.py)

vars ==
  <<pc, deliveries, queryExists, isFinished, status, numRows, resultsFile, params,
    sphinx, posts, matches, ids, fault, calls, api, migrate>>
\* the other programs of the repository, which the query worker never touches
others == <<api, migrate>>
\* their value while they are not running
NotRunning == [pc |-> "not running"]
dataset == <<queryExists, isFinished, status, numRows, resultsFile, params>>
locals == <<posts, matches, ids>>

NoFile == [exists |-> FALSE, rows |-> <<>>]
InitialStatus == ""

\* one call: who made it, what was called, with which argument
Call(by, op, arg) == [by |-> by, op |-> op, arg |-> arg]
UpdateStatus(by, text) == Call(by, "update_status", text)

InitWith(jobs) ==
  /\ pc = "idle"
  /\ deliveries = 0
  /\ queryExists \in BOOLEAN
  /\ isFinished = FALSE
  /\ status = InitialStatus
  /\ numRows = 0
  /\ resultsFile = NoFile
  /\ params \in (IF queryExists THEN jobs ELSE {[random_amount |-> 0]})
  /\ sphinx = "none"
  /\ posts = None
  /\ matches = <<>>
  /\ ids = <<>>
  /\ fault = "none"
  /\ calls = <<>>
  /\ api = NotRunning
  /\ migrate = NotRunning

Init == InitWith(Params)
InitLackingKeys == InitWith(ParamsLackingKeys)

(***************************************************************************)
(* The queue hands the job to a fresh worker object, which calls work();   *)
(* the same job can be handed out again after work() ended.                *)
(***************************************************************************)
Deliver ==
  /\ pc \in {"idle", "done", "raised"}
  /\ deliveries < MaxDeliveries
  /\ deliveries' = deliveries + 1
  /\ pc' = "resolve"
  /\ sphinx' = "none"
  /\ posts' = None
  /\ matches' = <<>>
  /\ ids' = <<>>
  /\ fault' = "none"
  /\ calls' = <<>>
  /\ UNCHANGED dataset
  /\ UNCHANGED others

\* the next step of the code, with the calls this step made
Goto(next, made) ==
  /\ pc' = next
  /\ calls' = calls \o made
  /\ fault' = fault
  /\ UNCHANGED others
\* an exception nobody catches leaves work()
Raise(by, exception, made) ==
  /\ pc' = "raised"
  /\ calls' = calls \o made \o <<Call(by, "raise", exception)>>
  /\ fault' = exception
  /\ UNCHANGED others
\* `return value` in an executor: work() goes on with posts = value
Return(value, made) ==
  /\ Goto("write", made)
  /\ posts' = value

(***************************************************************************)
(* StringQuery.work (string_query.py:39-97)                                *)
(***************************************************************************)
\* the TypeError of DataSet() left uncaught
work_resolve_uncaught ==
  /\ pc = "resolve"
  /\ IF ~queryExists
       THEN Raise("DataSet", "TypeError", <<>>)
       ELSE Goto("is_finished", <<>>)
  /\ UNCHANGED <<deliveries, dataset, sphinx, locals>>

\* lines 48-54: DataSet(key=key, db=self.db); TypeError when the row is gone
work_resolve ==
  /\ pc = "resolve"
  /\ IF ~queryExists
       THEN Goto("done", <<Call("work", "log.info", "non-existent query"),
                           Call("work", "job.finish", "")>>)
       ELSE Goto("is_finished", <<>>)
  /\ UNCHANGED <<deliveries, dataset, sphinx, locals>>

\* the is_finished() test left out
work_is_finished_unguarded ==
  /\ pc = "is_finished"
  /\ Goto("connect", <<>>)
  /\ UNCHANGED <<deliveries, dataset, sphinx, locals>>

\* lines 56-59: the query is already finished
work_is_finished ==
  /\ pc = "is_finished"
  /\ IF isFinished
       THEN Goto("done", <<Call("work", "log.info", "already finished"),
                           Call("work", "job.finish", "")>>)
       ELSE Goto("connect", <<>>)
  /\ UNCHANGED <<deliveries, dataset, sphinx, locals>>

\* lines 62-77: update_version, connect to Sphinx, read the parameters
work_connect ==
  /\ pc = "connect"
  /\ sphinx' = "open"
  /\ Goto("select", <<Call("work", "update_version", ""),
                      Call("work", "sphinx.connect", ""),
                      Call("work", "get_parameters", ""),
                      Call("work", "log.info", "parameters")>>)
  /\ UNCHANGED <<deliveries, dataset, locals>>

\* the country test placed before the random test
SelectExecutorCountryFirst(query_parameters) ==
  IF Has(query_parameters, "country_flag") /\ query_parameters.country_flag # "all"
    THEN "execute_country_query"
  ELSE IF Has(query_parameters, "random_amount") /\ query_parameters.random_amount # 0
    THEN "execute_random_query"
  ELSE "execute_string_query"

\* lines 80-85: which executor the parameters select
SelectExecutor(query_parameters) ==
  IF Has(query_parameters, "random_amount") /\ query_parameters.random_amount # 0
    THEN "execute_random_query"
  ELSE IF Has(query_parameters, "country_flag") /\ query_parameters.country_flag # "all"
    THEN "execute_country_query"
  ELSE "execute_string_query"

\* lines 79-85: call the executor
work_select ==
  /\ pc = "select"
  /\ Goto(SelectExecutor(params), <<Call("work", SelectExecutor(params), "")>>)
  /\ UNCHANGED <<deliveries, dataset, sphinx, locals>>

\* `if posts is not None:` in place of `if posts:`
OutcomeOfNotNone(p) == IF ~p.isNone THEN "populated" ELSE "null"
\* `else:` in place of `elif posts is not None:`
OutcomeWithElse(p) == IF Truthy(p) THEN "populated" ELSE "empty"

\* lines 88 and 92: `if posts:` / `elif posts is not None:` / neither
Outcome(p) ==
  IF Truthy(p) THEN "populated"
  ELSE IF ~p.isNone THEN "empty"
  ELSE "null"

\* lines 88-93: the three outcomes of the executor
work_write ==
  /\ pc = "write"
  /\ IF Outcome(posts) = "populated"
       THEN /\ status' = StatusWriting
            /\ Goto("posts_to_csv", <<UpdateStatus("work", StatusWriting)>>)
       ELSE IF Outcome(posts) = "empty"
         THEN /\ status' = StatusNoResults
              /\ Goto("query_finish", <<UpdateStatus("work", StatusNoResults)>>)
         ELSE /\ status' = status
              /\ Goto("query_finish", <<>>)
  /\ UNCHANGED <<deliveries, queryExists, isFinished, numRows, resultsFile, params,
                 sphinx, locals>>

\* the status announces the results without posts_to_csv having run
work_posts_to_csv_skipped ==
  /\ pc = "posts_to_csv"
  /\ status' = StatusAvailable
  /\ Goto("query_finish", <<UpdateStatus("work", StatusAvailable)>>)
  /\ UNCHANGED <<deliveries, queryExists, isFinished, numRows, resultsFile, params,
                 sphinx, locals>>

\* line 90: posts_to_csv(posts, results_file)
work_posts_to_csv ==
  /\ pc = "posts_to_csv"
  /\ resultsFile' = [exists |-> TRUE, rows |-> posts.rows]
  /\ Goto("available", <<Call("work", "posts_to_csv", posts.rows)>>)
  /\ UNCHANGED <<deliveries, queryExists, isFinished, status, numRows, params,
                 sphinx, locals>>

\* line 91
work_available ==
  /\ pc = "available"
  /\ status' = StatusAvailable
  /\ Goto("query_finish", <<UpdateStatus("work", StatusAvailable)>>)
  /\ UNCHANGED <<deliveries, queryExists, isFinished, numRows, resultsFile, params,
                 sphinx, locals>>

\* line 95: num_posts = len(posts) if posts else 0
num_posts(p) == IF Truthy(p) THEN Len(p.rows) ELSE 0

\* line 96: self.query.finish(num_rows=num_posts)
work_query_finish ==
  /\ pc = "query_finish"
  /\ isFinished' = TRUE
  /\ numRows' = num_posts(posts)
  /\ Goto("job_finish", <<Call("work", "query.finish", num_posts(posts))>>)
  /\ UNCHANGED <<deliveries, queryExists, status, resultsFile, params, sphinx, locals>>

\* line 97: self.job.finish()
work_job_finish ==
  /\ pc = "job_finish"
  /\ Goto("done", <<Call("work", "job.finish", "")>>)
  /\ UNCHANGED <<deliveries, dataset, sphinx, locals>>

(***************************************************************************)
(* The environment's answers.                                              *)
(***************************************************************************)
\* the elements of a finite set of numbers, ascending
RECURSIVE Ascending(_)
Ascending(S) ==
  IF S = {} THEN <<>>
  ELSE LET least == CHOOSE x \in S : \A y \in S : x <= y
       IN <<least>> \o Ascending(S \ {least})

\* what fetch_sphinx can hand back: the match records of any set of posts,
\* in the index's document order
SphinxResults ==
  {[k \in DOMAIN p |-> [post_id |-> p[k], thread_id |-> Post(p[k]).thread_id]] :
     p \in {Ascending(S) : S \in SUBSET PostIds}}

\* what fetch_posts(post_ids) can hand back: the stored rows with these ids,
\* in any order
fetch_posts_results(post_ids) == RowsInAnyOrder(Range(post_ids) \cap PostIds)

\* what fetch_threads(thread_ids) can hand back: the stored rows of these
\* threads, in any order
fetch_threads_results(thread_ids) ==
  RowsInAnyOrder({i \in PostIds : Post(i).thread_id \in Range(thread_ids)})

\* a relational-store call can fail with the driver's exception
StoreFaults == {"DatabaseError"}

(***************************************************************************)
(* StringQuery.execute_string_query (string_query.py:99-203)               *)
(***************************************************************************)
\* lines 113-145: build the query (query["max_date"] raises KeyError when the
\* key is absent), then announce the search
string_build ==
  /\ pc = "execute_string_query"
  /\ IF ~Has(params, "max_date")
       THEN /\ Raise("execute_string_query", "KeyError", <<>>)
            /\ status' = status
       ELSE /\ status' = StatusSearching
            /\ Goto("fetch_sphinx", <<UpdateStatus("execute_string_query", StatusSearching)>>)
  /\ UNCHANGED <<deliveries, queryExists, isFinished, numRows, resultsFile, params,
                 sphinx, locals>>

\* the timeout branch without its self.sphinx.close()
OnOperationalErrorLeak ==
  /\ status' = StatusTimeout
  /\ sphinx' = sphinx
  /\ matches' = matches
  /\ Return(None, <<Call("execute_string_query", "fetch_sphinx", SphinxWhere(params)),
                    Call("fetch_sphinx", "raise", "OperationalError"),
                    UpdateStatus("execute_string_query", StatusTimeout),
                    Call("execute_string_query", "log.info", "timed out")>>)

\* the timeout handled by the crash branch (one `except` for both errors)
OnOperationalErrorAsCrash ==
  /\ status' = StatusCrash
  /\ sphinx' = "closed"
  /\ matches' = matches
  /\ Return(None, <<Call("execute_string_query", "fetch_sphinx", SphinxWhere(params)),
                    Call("fetch_sphinx", "raise", "OperationalError"),
                    UpdateStatus("execute_string_query", StatusCrash),
                    Call("execute_string_query", "log.error", "Sphinx crash"),
                    Call("execute_string_query", "sphinx.close", "")>>)

\* lines 151-157: the index timed out
OnOperationalError ==
  /\ status' = StatusTimeout
  /\ sphinx' = "closed"
  /\ matches' = matches
  /\ Return(None, <<Call("execute_string_query", "fetch_sphinx", SphinxWhere(params)),
                    Call("fetch_sphinx", "raise", "OperationalError"),
                    UpdateStatus("execute_string_query", StatusTimeout),
                    Call("execute_string_query", "log.info", "timed out"),
                    Call("execute_string_query", "sphinx.close", "")>>)

\* lines 158-162: the index crashed on the query
OnProgrammingError ==
  /\ status' = StatusCrash
  /\ sphinx' = "closed"
  /\ matches' = matches
  /\ Return(None, <<Call("execute_string_query", "fetch_sphinx", SphinxWhere(params)),
                    Call("fetch_sphinx", "raise", "ProgrammingError"),
                    UpdateStatus("execute_string_query", StatusCrash),
                    Call("execute_string_query", "log.error", "Sphinx crash"),
                    Call("execute_string_query", "sphinx.close", "")>>)

\* lines 147-162: phase 1, the index query
string_fetch_sphinx ==
  /\ pc = "fetch_sphinx"
  /\ \/ \E found \in SphinxResults :
          /\ matches' = found
          /\ status' = StatusFound(Len(found))
          /\ sphinx' = sphinx
          /\ posts' = posts
          /\ Goto("sphinx_close",
                  <<Call("execute_string_query", "fetch_sphinx", SphinxWhere(params)),
                    Call("execute_string_query", "log.info", "Sphinx query finished"),
                    UpdateStatus("execute_string_query", StatusFound(Len(found)))>>)
     \/ OnOperationalError
     \/ OnProgrammingError
  /\ UNCHANGED <<deliveries, queryExists, isFinished, numRows, resultsFile, params, ids>>

\* line 164
string_sphinx_close ==
  /\ pc = "sphinx_close"
  /\ sphinx' = "closed"
  /\ Goto("no_matches", <<Call("execute_string_query", "sphinx.close", "")>>)
  /\ UNCHANGED <<deliveries, dataset, locals>>

\* the `if not posts:` test left out: phase 2 runs on an empty match list
string_no_matches_unchecked ==
  /\ pc = "no_matches"
  /\ status' = status
  /\ posts' = posts
  /\ Goto("phase2", <<Call("execute_string_query", "log.info", "Running full posts query")>>)
  /\ UNCHANGED <<deliveries, queryExists, isFinished, numRows, resultsFile, params,
                 sphinx, matches, ids>>

\* lines 166-169: nothing matched
string_no_matches ==
  /\ pc = "no_matches"
  /\ IF matches = <<>>
       THEN /\ status' = StatusNoMatches
            /\ Return(None, <<UpdateStatus("execute_string_query", StatusNoMatches)>>)
       ELSE /\ status' = status
            /\ posts' = posts
            /\ Goto("phase2", <<Call("execute_string_query", "log.info", "Running full posts query")>>)
  /\ UNCHANGED <<deliveries, queryExists, isFinished, numRows, resultsFile, params,
                 sphinx, matches, ids>>

\* the filter run whenever dense_threads is set, body predicate or not
string_phase2_always_dense ==
  /\ pc = "phase2"
  /\ IF ~params.full_thread /\ ~params.dense_threads
       THEN /\ ids' = Column(matches, "post_id")
            /\ status' = status
            /\ Goto("fetch_posts", <<>>)
       ELSE /\ ids' = Column(matches, "thread_id")
            /\ IF params.dense_threads
                 THEN /\ status' = StatusFiltering
                      /\ Goto("filter_dense",
                              <<UpdateStatus("execute_string_query", StatusFiltering)>>)
                 ELSE /\ status' = status
                      /\ Goto("fetch_threads", <<>>)
  /\ UNCHANGED <<deliveries, queryExists, isFinished, numRows, resultsFile, params,
                 sphinx, posts, matches>>

\* lines 176-191: which rows phase 2 asks for
string_phase2 ==
  /\ pc = "phase2"
  /\ IF ~params.full_thread /\ ~params.dense_threads
       THEN /\ ids' = Column(matches, "post_id")
            /\ status' = status
            /\ Goto("fetch_posts", <<>>)
       ELSE /\ ids' = Column(matches, "thread_id")
            /\ IF params.dense_threads /\ params.body_query # <<>>
                 THEN /\ status' = StatusFiltering
                      /\ Goto("filter_dense",
                              <<UpdateStatus("execute_string_query", StatusFiltering)>>)
                 ELSE /\ status' = status
                      /\ Goto("fetch_threads", <<>>)
  /\ UNCHANGED <<deliveries, queryExists, isFinished, numRows, resultsFile, params,
                 sphinx, posts, matches>>

\* lines 178-181 and 203: the matched posts
string_fetch_posts ==
  /\ pc = "fetch_posts"
  /\ \/ \E rows \in fetch_posts_results(ids) :
          /\ status' = StatusCollected
          /\ Return(List(rows), <<Call("execute_string_query", "fetch_posts", ids),
                                  UpdateStatus("execute_string_query", StatusCollected),
                                  Call("execute_string_query", "log.info", "Full posts query finished")>>)
     \/ \E exception \in StoreFaults :
          /\ status' = status
          /\ posts' = posts
          /\ Raise("fetch_posts", exception, <<Call("execute_string_query", "fetch_posts", ids)>>)
  /\ UNCHANGED <<deliveries, queryExists, isFinished, numRows, resultsFile, params,
                 sphinx, matches, ids>>

\* the `if not thread_ids: return []` test left out
string_filter_dense_unchecked ==
  /\ pc = "filter_dense"
  /\ \E total_posts \in ThreadRows(ids) :
       LET made == <<Call("filter_dense", "log.info", "Filtering dense threads"),
                     Call("filter_dense", "db.fetchall", ids)>>
           dense == filter_dense(ids, total_posts, params.dense_percentage,
                                 params.dense_length)
       IN IF dense.raised # "none"
            THEN /\ Raise("filter_dense", dense.raised, made)
                 /\ UNCHANGED <<posts, ids>>
            ELSE /\ Goto("fetch_threads", made \o <<Call("filter_dense", "log.info", "finished")>>)
                 /\ ids' = dense.value
                 /\ posts' = posts
  /\ UNCHANGED <<deliveries, dataset, sphinx, matches>>

\* lines 190-195: narrow the threads to the dense ones
string_filter_dense ==
  /\ pc = "filter_dense"
  /\ \/ \E total_posts \in ThreadRows(ids) :
          LET made == <<Call("filter_dense", "log.info", "Filtering dense threads"),
                        Call("filter_dense", "db.fetchall", ids)>>
              dense == filter_dense(ids, total_posts, params.dense_percentage,
                                    params.dense_length)
          IN IF dense.raised # "none"
               THEN /\ Raise("filter_dense", dense.raised, made)
                    /\ UNCHANGED <<posts, ids>>
             ELSE IF dense.value = <<>>
               THEN /\ Return(List(<<>>), made \o <<Call("filter_dense", "log.info", "finished")>>)
                    /\ ids' = dense.value
             ELSE /\ Goto("fetch_threads", made \o <<Call("filter_dense", "log.info", "finished")>>)
                  /\ ids' = dense.value
                  /\ posts' = posts
     \/ \E exception \in StoreFaults :
          /\ Raise("db.fetchall", exception, <<Call("filter_dense", "log.info", "Filtering dense threads"),
                                Call("filter_dense", "db.fetchall", ids)>>)
          /\ UNCHANGED <<posts, ids>>
  /\ UNCHANGED <<deliveries, dataset, sphinx, matches>>

\* lines 197-203: every post of the threads
string_fetch_threads ==
  /\ pc = "fetch_threads"
  /\ \/ \E rows \in fetch_threads_results(ids) :
          /\ status' = StatusCollected
          /\ Return(List(rows), <<Call("execute_string_query", "fetch_threads", ids),
                                  UpdateStatus("execute_string_query", StatusCollected),
                                  Call("execute_string_query", "log.info", "Full posts query finished")>>)
     \/ \E exception \in StoreFaults :
          /\ status' = status
          /\ posts' = posts
          /\ Raise("fetch_threads", exception, <<Call("execute_string_query", "fetch_threads", ids)>>)
  /\ UNCHANGED <<deliveries, queryExists, isFinished, numRows, resultsFile, params,
                 sphinx, matches, ids>>

(***************************************************************************)
(* StringQuery.execute_random_query (string_query.py:205-244)              *)
(***************************************************************************)
\* WHERE timestamp >= min_date [AND timestamp <= max_date]: the upper bound
\* is part of the query only when max_date > 0
InDateRange(query, i) ==
  /\ Post(i).timestamp >= query.min_date
  /\ query.max_date > 0 => Post(i).timestamp <= query.max_date

\* "SELECT id ... ORDER BY random() LIMIT random_amount": any random_amount of
\* the posts in range (all of them when there are fewer), in any order
random_ids_results(query) ==
  LET inRange == {i \in PostIds : InDateRange(query, i)}
      limit == IF query.random_amount < Cardinality(inRange)
                 THEN query.random_amount ELSE Cardinality(inRange)
  IN UNION {Perms(S) : S \in {T \in SUBSET inRange : Cardinality(T) = limit}}

\* lines 219-240: pick the random post ids
random_select ==
  /\ pc = "execute_random_query"
  /\ status' = StatusRandom
  /\ IF ~Has(params, "max_date")
       THEN /\ Raise("execute_random_query", "KeyError", <<UpdateStatus("execute_random_query", StatusRandom)>>)
            /\ ids' = ids
       ELSE \/ \E post_ids \in random_ids_results(params) :
                 /\ ids' = post_ids
                 /\ Goto("random_fetch_posts",
                         <<UpdateStatus("execute_random_query", StatusRandom),
                           Call("execute_random_query", "db.fetchall",
                                IF params.max_date > 0 THEN "both bounds" ELSE "lower bound")>>)
            \/ \E exception \in StoreFaults :
                 /\ ids' = ids
                 /\ Raise("db.fetchall", exception, <<UpdateStatus("execute_random_query", StatusRandom),
                                       Call("execute_random_query", "db.fetchall",
                                            IF params.max_date > 0 THEN "both bounds" ELSE "lower bound")>>)
  /\ UNCHANGED <<deliveries, queryExists, isFinished, numRows, resultsFile, params,
                 sphinx, posts, matches>>

\* lines 241-244: fetch the picked posts
random_fetch_posts ==
  /\ pc = "random_fetch_posts"
  /\ \/ \E rows \in fetch_posts_results(ids) :
          /\ status' = StatusCollected
          /\ Return(List(rows), <<Call("execute_random_query", "fetch_posts", ids),
                                  UpdateStatus("execute_random_query", StatusCollected)>>)
     \/ \E exception \in StoreFaults :
          /\ status' = status
          /\ posts' = posts
          /\ Raise("fetch_posts", exception, <<Call("execute_random_query", "fetch_posts", ids)>>)
  /\ UNCHANGED <<deliveries, queryExists, isFinished, numRows, resultsFile, params,
                 sphinx, matches, ids>>

(***************************************************************************)
(* StringQuery.execute_country_query (string_query.py:246-309)             *)
(***************************************************************************)
\* "europe" compared as a country code, without the expansion to the codes
CountryMatchesExact(country_flag, code) == code = country_flag

\* lines 259-270: country_code IN (the European codes) or country_code = flag
CountryMatches(country_flag, code) ==
  IF country_flag = "europe" THEN code \in EuropeCodes ELSE code = country_flag

\* lines 276-279: "thread_id, id" when dense threads are asked for, else all columns
CountryColumns(query, row) ==
  IF query.dense_country_percentage # 0
    THEN [thread_id |-> row.thread_id, id |-> row.id]
    ELSE row

\* lines 282-289: the rows of the initial query, in any order
country_results(query) ==
  LET hits == {i \in PostIds : /\ InDateRange(query, i)
                               /\ CountryMatches(query.country_flag, Post(i).country_code)}
  IN {[k \in DOMAIN rows |-> CountryColumns(query, rows[k])] : rows \in RowsInAnyOrder(hits)}

\* lines 254-299: the initial query
country_select ==
  /\ pc = "execute_country_query"
  /\ LET announced == <<UpdateStatus("execute_country_query", StatusCountry)>>
         queried == announced \o <<Call("execute_country_query", "db.fetchall",
                                        params.country_flag)>>
     IN IF ~Has(params, "dense_country_percentage") \/ ~Has(params, "max_date")
          THEN /\ status' = StatusCountry
               /\ Raise("execute_country_query", "KeyError", announced)
               /\ UNCHANGED locals
          ELSE \/ \E rows \in country_results(params) :
                    /\ matches' = rows
                    /\ IF rows = <<>>
                         THEN /\ status' = StatusCountry
                              /\ ids' = ids
                              /\ Return(List(<<>>), queried)
                       ELSE IF params.dense_country_percentage # 0
                         THEN /\ status' = StatusFiltering
                              /\ ids' = Column(rows, "thread_id")
                              /\ posts' = posts
                              /\ Goto("country_filter_dense",
                                      queried \o <<UpdateStatus("execute_country_query",
                                                                StatusFiltering)>>)
                       ELSE /\ status' = StatusCountry
                            /\ UNCHANGED <<ids, posts>>
                            /\ Goto("country_done", queried)
               \/ \E exception \in StoreFaults :
                    /\ status' = StatusCountry
                    /\ Raise("db.fetchall", exception, queried)
                    /\ UNCHANGED locals
  /\ UNCHANGED <<deliveries, queryExists, isFinished, numRows, resultsFile, params, sphinx>>

\* the `if not thread_ids: return []` test of the attribute executor left out
country_filter_dense_unchecked ==
  /\ pc = "country_filter_dense"
  /\ LET made == <<Call("filter_dense_country", "log.info", "Filtering dense threads"),
                   Call("filter_dense_country", "db.fetchall", ids)>>
     IN \E total_posts \in ThreadRows(ids) :
          LET dense == filter_dense_country(ids, total_posts,
                                            params.dense_country_percentage)
          IN IF dense.raised # "none"
               THEN /\ Raise("filter_dense_country", dense.raised, made)
                    /\ UNCHANGED <<posts, ids>>
               ELSE /\ Goto("country_fetch_threads",
                            made \o <<Call("filter_dense_country", "log.info", "finished")>>)
                    /\ ids' = dense.value
                    /\ posts' = posts
  /\ UNCHANGED <<deliveries, dataset, sphinx, matches>>

\* lines 300-303: narrow the threads to the dense ones
country_filter_dense ==
  /\ pc = "country_filter_dense"
  /\ LET made == <<Call("filter_dense_country", "log.info", "Filtering dense threads"),
                   Call("filter_dense_country", "db.fetchall", ids)>>
     IN \/ \E total_posts \in ThreadRows(ids) :
             LET dense == filter_dense_country(ids, total_posts,
                                               params.dense_country_percentage)
             IN IF dense.raised # "none"
                  THEN /\ Raise("filter_dense_country", dense.raised, made)
                       /\ UNCHANGED <<posts, ids>>
                ELSE IF dense.value = <<>>
                  THEN /\ Return(List(<<>>),
                                 made \o <<Call("filter_dense_country", "log.info", "finished")>>)
                       /\ ids' = dense.value
                ELSE /\ Goto("country_fetch_threads",
                             made \o <<Call("filter_dense_country", "log.info", "finished")>>)
                     /\ ids' = dense.value
                     /\ posts' = posts
        \/ \E exception \in StoreFaults :
             /\ Raise("db.fetchall", exception, made)
             /\ UNCHANGED <<posts, ids>>
  /\ UNCHANGED <<deliveries, dataset, sphinx, matches>>

\* line 305: every post of the dense threads
country_fetch_threads ==
  /\ pc = "country_fetch_threads"
  /\ \/ \E rows \in fetch_threads_results(ids) :
          /\ matches' = rows
          /\ Goto("country_done", <<Call("execute_country_query", "fetch_threads", ids)>>)
     \/ \E exception \in StoreFaults :
          /\ matches' = matches
          /\ Raise("fetch_threads", exception, <<Call("execute_country_query", "fetch_threads", ids)>>)
  /\ UNCHANGED <<deliveries, dataset, sphinx, posts, ids>>

\* lines 308-309
country_done ==
  /\ pc = "country_done"
  /\ status' = StatusCountryFound(Len(matches))
  /\ Return(List(matches),
            <<UpdateStatus("execute_country_query", StatusCountryFound(Len(matches)))>>)
  /\ UNCHANGED <<deliveries, queryExists, isFinished, numRows, resultsFile, params,
                 sphinx, matches, ids>>

(***************************************************************************)
(* The worker.                                                             *)
(***************************************************************************)
Next ==
  \/ Deliver
  \/ work_resolve
  \/ work_is_finished
  \/ work_connect
  \/ work_select
  \/ string_build
  \/ string_fetch_sphinx
  \/ string_sphinx_close
  \/ string_no_matches
  \/ string_phase2
  \/ string_fetch_posts
  \/ string_filter_dense
  \/ string_fetch_threads
  \/ random_select
  \/ random_fetch_posts
  \/ country_select
  \/ country_filter_dense
  \/ country_fetch_threads
  \/ country_done
  \/ work_write
  \/ work_posts_to_csv
  \/ work_available
  \/ work_query_finish
  \/ work_job_finish

Spec == Init /\ [][Next]_vars
\* the same worker, with jobs that lack max_date or dense_country_percentage
SpecLackingKeys == InitLackingKeys /\ [][Next]_vars

(***************************************************************************)
(* Reading the call log of the current delivery.                           *)
(***************************************************************************)
Executors == {"execute_random_query", "execute_country_query", "execute_string_query"}
\* the positions of the calls of an operation
At(op) == {k \in DOMAIN calls : calls[k].op = op}
\* the positions where work() called an executor
ExecutorCalls == {k \in DOMAIN calls : calls[k].by = "work" /\ calls[k].op \in Executors}
\* the positions of the status updates with a given text
StatusAt(text) == {k \in At("update_status") : calls[k].arg = text}
\* the positions of the exceptions raised
RaisedAt(exception) == {k \in At("raise") : calls[k].arg = exception}
\* every position of S comes before every position of T
Before(S, T) == \A j \in S, k \in T : j < k
\* nothing of T happens unless something of S happened, and all of S came first
Precedes(S, T) == T # {} => (S # {} /\ Before(S, T))
\* the text of the latest status update of this delivery
LastStatusUpdate ==
  LET last == CHOOSE k \in At("update_status") : \A j \in At("update_status") : j <= k
  IN calls[last]
\* work() is over: it returned, or an exception left it
Ended == pc \in {"done", "raised"}
\* the executor has handed its result to work()
Returned == pc \in {"write", "posts_to_csv", "available", "query_finish", "job_finish"}
              \/ (pc = "done" /\ ExecutorCalls # {})

(***************************************************************************)
(* C1: in every invocation of work(), on every code path, job.finish() is   *)
(* called exactly once before work() ends.                                 *)
(* Stated as the claim; refuted by the paths on which an exception leaves   *)
(* an executor.                                                            *)
(***************************************************************************)
C1_FinishExactlyOnce ==
  /\ Cardinality(At("job.finish")) <= 1
  /\ Ended => Cardinality(At("job.finish")) = 1

C3_NullResultKeepsStatus ==
  (Returned /\ posts.isNone)
    => /\ At("posts_to_csv") = {} /\ ~resultsFile.exists
       /\ \A k \in At("update_status") : calls[k].by # "work"
       /\ LastStatusUpdate.by \in Executors
       /\ status = LastStatusUpdate.arg
       /\ status \in {StatusTimeout, StatusCrash, StatusNoMatches}
       /\ pc \in {"job_finish", "done"} =>
            /\ isFinished /\ numRows = 0
            /\ \E k \in At("query.finish") : calls[k].arg = 0
       /\ pc = "done" =>
            /\ Cardinality(At("job.finish")) = 1
            /\ Before(At("query.finish"), At("job.finish"))

C3_Witness ==
  /\ pc = "done" /\ ExecutorCalls # {}
  /\ posts.isNone
  /\ status = StatusTimeout
  /\ isFinished

(***************************************************************************)
(* C4: on a non-empty result of n rows work() writes the rows to the       *)
(* result file before it sets the status to "results available", then     *)
(* finalizes the QuerySpec with row count n, and only then finishes the    *)
(* job.                                                                    *)
(***************************************************************************)
C4_PopulatedResultOrder ==
  (Returned /\ Truthy(posts))
    => /\ Precedes(At("posts_to_csv"), StatusAt(StatusAvailable))
       /\ Precedes(StatusAt(StatusAvailable), At("query.finish"))
       /\ Precedes(At("query.finish"), At("job.finish"))
       /\ \A k \in At("posts_to_csv") : calls[k].arg = posts.rows
       /\ \A k \in At("query.finish") : calls[k].arg = Len(posts.rows)
       /\ StatusAt(StatusAvailable) # {} =>
            resultsFile = [exists |-> TRUE, rows |-> posts.rows]
       /\ At("query.finish") # {} =>
            /\ status = StatusAvailable
            /\ isFinished /\ numRows = Len(posts.rows)
       /\ pc = "done" => Cardinality(At("job.finish")) = 1

C4_Witness ==
  /\ pc = "done"
  /\ Truthy(posts) /\ Len(posts.rows) >= 2
  /\ numRows = Len(posts.rows)
  /\ resultsFile.rows = posts.rows
  /\ status = StatusAvailable

(***************************************************************************)
(* C5: a job that passes the early-exit guards invokes exactly one of the  *)
(* three executors, exactly once: the random executor when random_amount   *)
(* is present and non-zero, otherwise the attribute executor when          *)
(* country_flag is present and not "all", otherwise the full-text executor *)
(* (with or without a text predicate).                                     *)
(***************************************************************************)
C5_ExactlyOneExecutor ==
  LET random == "random_amount" \in DOMAIN params /\ params["random_amount"] # 0
      country == "country_flag" \in DOMAIN params /\ params["country_flag"] # "all"
      expected == CASE random -> "execute_random_query"
                    [] ~random /\ country -> "execute_country_query"
                    [] ~random /\ ~country -> "execute_string_query"
  IN /\ Cardinality(ExecutorCalls) <= 1
     /\ (At("get_parameters") # {} /\ pc # "select") =>
          /\ Cardinality(ExecutorCalls) = 1
          /\ \A k \in ExecutorCalls : calls[k].op = expected
          /\ \A k \in DOMAIN calls : calls[k].by \in Executors => calls[k].by = expected

C5_Witness ==
  /\ pc = "done"
  /\ Has(params, "random_amount") /\ params.random_amount # 0
  /\ Has(params, "country_flag") /\ params.country_flag = "FR"
  /\ params.body_query # <<>>
  /\ \E k \in ExecutorCalls : calls[k].op = "execute_random_query"

(***************************************************************************)
(* C6: every index connection work() opened has been closed by the time    *)
(* work() returns, whichever executor ran.                                 *)
(* Stated as the claim; refuted by the random and the attribute executor,   *)
(* which never close self.sphinx.                                          *)
(***************************************************************************)
C6_IndexConnectionClosed == pc = "done" => sphinx # "open"

(***************************************************************************)
(* C7: in the full-text executor the index connection is closed before the *)
(* executor returns on the timeout branch and on the crash branch, and on  *)
(* the success branch it is closed before any relational-store call        *)
(* (the thread-statistics query of filter_dense, fetch_posts,              *)
(* fetch_threads) is issued.                                               *)
(***************************************************************************)
\* the relational-store calls of the full-text executor
Phase2Calls ==
  {k \in DOMAIN calls :
     \/ calls[k].by = "execute_string_query" /\ calls[k].op \in {"fetch_posts", "fetch_threads"}
     \/ calls[k].by = "filter_dense" /\ calls[k].op = "db.fetchall"}

C7_IndexClosedBeforeStore ==
  /\ Precedes(At("sphinx.close"), Phase2Calls)
  /\ pc \in {"fetch_posts", "filter_dense", "fetch_threads"} => sphinx = "closed"
  /\ (RaisedAt("OperationalError") \cup RaisedAt("ProgrammingError")) # {} =>
       /\ Returned
       /\ sphinx = "closed"
       /\ Cardinality(At("sphinx.close")) = 1
       /\ \A k \in At("sphinx.close"), j \in DOMAIN calls : j > k => calls[j].by = "work"

C7_Witness ==
  /\ pc = "write"
  /\ sphinx = "closed"
  /\ \E k \in Phase2Calls : calls[k].op = "db.fetchall"
  /\ \E k \in Phase2Calls : calls[k].op = "fetch_threads"

(***************************************************************************)
(* C8: every backend failure raised while an executor runs, also one of a  *)
(* relational-store call, is caught inside the executor and converted to a *)
(* null result, so that the QuerySpec is finalized and the job finished;   *)
(* no fault leaves work().                                                 *)
(* Stated as the claim; refuted, since only the two index errors are        *)
(* caught.                                                                 *)
(***************************************************************************)
C8_BackendFailuresCaught ==
  (\E k \in At("raise") : calls[k].arg \in StoreFaults)
    => /\ pc # "raised" /\ fault = "none"
       /\ Returned => posts.isNone
       /\ pc = "done" => (isFinished /\ Cardinality(At("job.finish")) = 1)

(***************************************************************************)
(* C9: a timeout of the index query (OperationalError) sets the timeout    *)
(* status and is logged at info level; a crash (ProgrammingError) sets the *)
(* admins-notified status and is logged at error level; both return null,  *)
(* neither goes on to phase 2, and the job completes with zero rows.       *)
(***************************************************************************)
C9_IndexFailuresClassified ==
  LET logged(level) == {k \in At(level) : calls[k].by = "execute_string_query"}
      completes(text) ==
        /\ pc # "raised"
        /\ Returned /\ posts.isNone
        /\ Phase2Calls = {}
        /\ status = text
        /\ pc = "done" =>
             /\ isFinished /\ numRows = 0
             /\ \E k \in At("query.finish") : calls[k].arg = 0
             /\ Cardinality(At("job.finish")) = 1
  IN /\ RaisedAt("OperationalError") # {} =>
          /\ StatusAt(StatusTimeout) # {} /\ StatusAt(StatusCrash) = {}
          /\ logged("log.info") # {} /\ logged("log.error") = {}
          /\ Before(RaisedAt("OperationalError"), logged("log.info"))
          /\ completes(StatusTimeout)
     /\ RaisedAt("ProgrammingError") # {} =>
          /\ StatusAt(StatusCrash) # {} /\ StatusAt(StatusTimeout) = {}
          /\ logged("log.error") # {} /\ logged("log.info") = {}
          /\ Before(RaisedAt("ProgrammingError"), logged("log.error"))
          /\ completes(StatusCrash)

C9_Witness ==
  /\ pc = "done"
  /\ RaisedAt("ProgrammingError") # {}
  /\ status = StatusCrash
  /\ isFinished /\ numRows = 0

(***************************************************************************)
(* C10: when the job's QuerySpec is missing, work() finishes the job at    *)
(* once and without error: no executor runs, no index connection is        *)
(* opened, no status is updated, no file is written and no QuerySpec is    *)
(* finalized.                                                              *)
(***************************************************************************)
C10_MissingQuerySilentFinish ==
  (~queryExists /\ pc \notin {"idle", "resolve"})
    => /\ pc = "done" /\ fault = "none"
       /\ Len(calls) = 2
       /\ calls[1] = Call("work", "log.info", "non-existent query")
       /\ calls[2] = Call("work", "job.finish", "")
       /\ sphinx = "none"
       /\ status = InitialStatus
       /\ resultsFile = NoFile
       /\ ~isFinished /\ numRows = 0

C10_Witness ==
  /\ ~queryExists
  /\ pc = "done"
  /\ deliveries = 1
  /\ Cardinality(At("job.finish")) = 1

(***************************************************************************)
(* C11: every invocation of work() on a QuerySpec that is already finished *)
(* runs no executor and opens no index connection, leaves the status text, *)
(* the row count and the result file as they were, and does nothing but    *)
(* log the fact and call job.finish() once; this holds for each of any     *)
(* number of such invocations.                                             *)
(***************************************************************************)
\* the QuerySpec was finished before the current invocation started
FinishedBefore == isFinished /\ At("query.finish") = {}

NoIndexMatches ==
  \E k \in StatusAt(StatusFound(0)) : calls[k].by = "execute_string_query"

C12_NoMatchesShortCircuit ==
  /\ NoIndexMatches =>
       /\ matches = <<>>
       /\ Phase2Calls = {}
       /\ pc \in {"sphinx_close", "no_matches"} \/ Returned
       /\ Returned =>
            /\ posts.isNone
            /\ Cardinality(StatusAt(StatusNoMatches)) = 1
            /\ LastStatusUpdate = UpdateStatus("execute_string_query", StatusNoMatches)
            /\ status = StatusNoMatches
  /\ StatusAt(StatusNoMatches) # {} => NoIndexMatches

C12_Witness ==
  /\ pc = "done"
  /\ NoIndexMatches
  /\ posts.isNone
  /\ status = StatusNoMatches
  /\ params.full_thread /\ params.dense_threads /\ params.body_query # <<>>

(***************************************************************************)
(* C13: in the full-text executor with dense_threads set and a body        *)
(* predicate given, when filter_dense leaves no thread the executor        *)
(* returns an empty, non-null result without calling fetch_threads, and    *)
(* the job ends finalized with 0 rows and the status "Query finished, no   *)
(* results found.", not with a failure status.                             *)
(***************************************************************************)
\* filter_dense of the full-text executor returned, and left no thread
NoDenseThreads ==
  /\ \E k \in At("log.info") : calls[k] = Call("filter_dense", "log.info", "finished")
  /\ ids = <<>>

C13_NoDenseThreadsIsEmpty ==
  NoDenseThreads =>
    /\ params.dense_threads /\ params.body_query # <<>>
    /\ At("fetch_threads") = {} /\ At("fetch_posts") = {}
    /\ Returned /\ fault = "none"
    /\ posts = List(<<>>)
    /\ status \notin {StatusTimeout, StatusCrash, StatusNoMatches}
    /\ pc # "write" => (status = StatusNoResults /\ At("posts_to_csv") = {})
    /\ pc = "done" =>
         /\ isFinished /\ numRows = 0
         /\ Cardinality(At("job.finish")) = 1

C13_Witness ==
  /\ pc = "done"
  /\ NoDenseThreads
  /\ matches # <<>>
  /\ posts = List(<<>>)
  /\ status = StatusNoResults

(***************************************************************************)
(* C14: whichever executor ran and in whatever order the adapter or the    *)
(* relational store handed back its rows, the rows the executor returns,   *)
(* and so the rows handed to the result writer, are non-decreasing in      *)
(* (thread_id, id) lexicographic order.                                    *)
(* Stated as the claim; refuted, since no executor sorts the rows it got.  *)
(***************************************************************************)
\* row a is not after row b in (thread_id, id) order
NotAfter(a, b) ==
  \/ a.thread_id < b.thread_id
  \/ a.thread_id = b.thread_id /\ a.id <= b.id
\* the rows are non-decreasing in (thread_id, id) order
SortedByThreadAndId(rows) ==
  \A k \in DOMAIN rows : k > 1 => NotAfter(rows[k - 1], rows[k])

C14_ResultSorted ==
  /\ (Returned /\ ~posts.isNone) => SortedByThreadAndId(posts.rows)
  /\ \A k \in At("posts_to_csv") : SortedByThreadAndId(calls[k].arg)

(***************************************************************************)
(* DenseFilter on its own: filter_dense and filter_dense_country called    *)
(* with a list of thread ids, the thread statistics the store answers with *)
(* and the thresholds (string_query.py:311-387).                           *)
(***************************************************************************)
\* how often one thread id can occur in the list handed to the filter
MaxOccurrences == 4
\* the threads of the lists, and the reply counts their statistics can hold
DenseThreads == {1, 2}
DenseReplies == {0, 5, 10}

\* the lists of thread ids handed to the filter: thread 1 a times and
\* thread 2 b times, in either order
DenseThreadIds ==
  {[k \in 1..(a + b) |-> IF k <= a THEN first ELSE 3 - first] :
     a \in 0..MaxOccurrences, b \in 0..MaxOccurrences, first \in DenseThreads}

\* "SELECT id, num_replies FROM threads_... WHERE id IN thread_ids GROUP BY
\* id": one row for each of the ids that the threads table holds, in any order
DenseThreadRows(thread_ids) ==
  UNION {{[k \in DOMAIN p |-> [id |-> p[k], num_replies |-> n[p[k]]]] :
            p \in Perms(held), n \in [held -> DenseReplies]} :
         held \in SUBSET (Range(thread_ids) \cap DenseThreads)}

\* the thresholds of the call
DenseThresholds ==
  [dense_percentage : {0, 50, 80}, dense_length : {0, 6},
   dense_country_percentage : {50, 80}]

InitDenseFilter ==
  /\ pc = "DenseFilter"
  /\ ids \in DenseThreadIds
  /\ matches \in DenseThreadRows(ids)
  /\ params \in DenseThresholds
  /\ deliveries = 0
  /\ queryExists = TRUE
  /\ isFinished = FALSE
  /\ status = InitialStatus
  /\ numRows = 0
  /\ resultsFile = NoFile
  /\ sphinx = "none"
  /\ posts = None
  /\ fault = "none"
  /\ calls = <<>>
  /\ api = NotRunning
  /\ migrate = NotRunning

\* thread_ids = self.filter_dense(thread_ids, keyword, percentage, length),
\* with total_posts (held in `matches`) the answer of the store
call_filter_dense ==
  /\ pc = "DenseFilter"
  /\ LET dense == filter_dense(ids, matches, params.dense_percentage, params.dense_length)
         made == <<Call("DenseFilter", "filter_dense", ids)>>
     IN IF dense.raised # "none"
          THEN /\ Raise("filter_dense", dense.raised, made)
               /\ ids' = ids
          ELSE /\ Goto("filter_dense_returned", made)
               /\ ids' = dense.value
  /\ UNCHANGED <<deliveries, dataset, sphinx, posts, matches>>

\* thread_ids = self.filter_dense_country(thread_ids, country, percentage)
call_filter_dense_country ==
  /\ pc = "DenseFilter"
  /\ LET dense == filter_dense_country(ids, matches, params.dense_country_percentage)
         made == <<Call("DenseFilter", "filter_dense_country", ids)>>
     IN IF dense.raised # "none"
          THEN /\ Raise("filter_dense_country", dense.raised, made)
               /\ ids' = ids
          ELSE /\ Goto("filter_dense_country_returned", made)
               /\ ids' = dense.value
  /\ UNCHANGED <<deliveries, dataset, sphinx, posts, matches>>

NextDenseFilter ==
  \/ call_filter_dense
  \/ call_filter_dense_country

SpecDenseFilter == InitDenseFilter /\ [][NextDenseFilter]_vars

(***************************************************************************)
(* Reading a call of the filter: what went in and what came out.           *)
(***************************************************************************)
\* the list of thread ids the filter was called with
FilterInput == calls[1].arg
\* the thread statistics the store answered with
FilterStats == matches
\* the thread ids the filter returned
FilterOutput == ids
\* how often thread t occurs in the list handed to the filter
Occurrences(t) == Cardinality({k \in DOMAIN FilterInput : FilterInput[k] = t})
\* the rows of the statistics whose density is at least the threshold
DenseRows(percentage) ==
  {k \in DOMAIN FilterStats :
     Occurrences(FilterStats[k].id) * 100 >= percentage * FilterStats[k].num_replies}
\* the rows of the statistics with at least `length` replies
LongRows(length) == {k \in DOMAIN FilterStats : FilterStats[k].num_replies >= length}
\* the filter returned exactly the thread ids of these rows, each once
ReturnsRows(rows) ==
  /\ Range(FilterOutput) = {FilterStats[k].id : k \in rows}
  /\ Len(FilterOutput) = Cardinality(rows)
\* the statistics of the example: thread 1 with 10 replies, thread 2 with 5
ExampleCall(percentage) ==
  /\ Occurrences(1) = 4 /\ Occurrences(2) = 4
  /\ Range(FilterStats) = {[id |-> 1, num_replies |-> 10], [id |-> 2, num_replies |-> 5]}
  /\ percentage = 50

ZeroRows == {k \in DOMAIN FilterStats : FilterStats[k].num_replies = 0}

C16_ZeroRepliesExcluded ==
  (pc # "DenseFilter" /\ ZeroRows # {}) =>
    /\ pc # "raised" /\ fault = "none"
    /\ pc = "filter_dense_returned" =>
         ReturnsRows((DenseRows(params.dense_percentage) \cap LongRows(params.dense_length))
                       \ ZeroRows)
    /\ pc = "filter_dense_country_returned" =>
         ReturnsRows(DenseRows(params.dense_country_percentage) \ ZeroRows)

(***************************************************************************)
(* C17: in the full-text executor with at least one match: when neither    *)
(* full_thread nor dense_threads is set, fetch_posts is called with        *)
(* exactly the matched post ids and fetch_threads is not called; otherwise *)
(* fetch_posts is not called and fetch_threads is called with the thread   *)
(* ids of the matches, which filter_dense narrows first exactly when       *)
(* dense_threads is set and a body predicate is given (fetch_threads is    *)
(* then called with what the filter left, if it left anything).            *)
(***************************************************************************)
\* the calls of an operation made by the full-text executor
ByStringQuery(op) == {k \in At(op) : calls[k].by = "execute_string_query"}
\* the thread-statistics queries of filter_dense
FilterDenseCalls == {k \in At("db.fetchall") : calls[k].by = "filter_dense"}
\* the full-text executor is past phase 1, with at least one match
StringMatched ==
  /\ \E k \in ExecutorCalls : calls[k].op = "execute_string_query"
  /\ matches # <<>>

C17_Phase2Fetch ==
  LET exact == ~params.full_thread /\ ~params.dense_threads
      narrowed == params.dense_threads /\ params.body_query # <<>>
      post_ids == Column(matches, "post_id")
      thread_ids == Column(matches, "thread_id")
  IN StringMatched =>
       /\ exact =>
            /\ ByStringQuery("fetch_threads") = {} /\ FilterDenseCalls = {}
            /\ \A k \in ByStringQuery("fetch_posts") : calls[k].arg = post_ids
            /\ Returned => Cardinality(ByStringQuery("fetch_posts")) = 1
       /\ ~exact =>
            /\ ByStringQuery("fetch_posts") = {}
            /\ Cardinality(ByStringQuery("fetch_threads")) <= 1
       /\ (~exact /\ ~narrowed) =>
            /\ FilterDenseCalls = {}
            /\ \A k \in ByStringQuery("fetch_threads") : calls[k].arg = thread_ids
            /\ Returned => ByStringQuery("fetch_threads") # {}
       /\ (~exact /\ narrowed) =>
            /\ Precedes(FilterDenseCalls, ByStringQuery("fetch_threads"))
            /\ \A k \in FilterDenseCalls : calls[k].arg = thread_ids
            /\ \A k \in ByStringQuery("fetch_threads") :
                 /\ calls[k].arg = ids /\ ids # <<>>
                 /\ Range(ids) \subseteq Range(thread_ids)
            /\ Returned =>
                 /\ Cardinality(FilterDenseCalls) = 1
                 /\ ByStringQuery("fetch_threads") # {} <=> ids # <<>>

C17_Witness ==
  /\ pc = "done"
  /\ StringMatched
  /\ params.dense_threads /\ params.body_query # <<>>
  /\ \E k \in ByStringQuery("fetch_threads") :
       /\ calls[k].arg = <<1>>
       /\ Range(Column(matches, "thread_id")) = {1, 2}

(***************************************************************************)
(* C18: the attribute (country) executor returns an empty, non-null result *)
(* without a further store round-trip when its initial query returns no    *)
(* rows; with density filtering requested it returns empty without calling *)
(* fetch_threads when filter_dense_country leaves no thread, and the rows  *)
(* of fetch_threads of the narrowed thread ids when it leaves some;        *)
(* without density filtering it returns the rows of the initial query, in  *)
(* one round-trip.                                                         *)
(***************************************************************************)
\* the store round-trips of the attribute executor
CountryInitialQueries ==
  {k \in At("db.fetchall") : calls[k].by = "execute_country_query"}
CountryStatsQueries ==
  {k \in At("db.fetchall") : calls[k].by = "filter_dense_country"}
CountryFetchThreads ==
  {k \in At("fetch_threads") : calls[k].by = "execute_country_query"}
\* the attribute executor ran and handed its result to work()
CountryReturned ==
  /\ \E k \in ExecutorCalls : calls[k].op = "execute_country_query"
  /\ Returned

C18_WitnessEmpty ==
  /\ pc = "done"
  /\ CountryReturned
  /\ CountryStatsQueries # {} /\ CountryFetchThreads = {}
  /\ posts = List(<<>>)

(***************************************************************************)
(* C19: the random-sample executor never returns null: for every           *)
(* QuerySpec, also one with max_date 0 or absent and one whose date range  *)
(* holds no posts, it returns a non-null list (empty when the range is     *)
(* empty); it applies both date bounds when max_date is greater than 0 and *)
(* only the lower bound otherwise.                                         *)
(* Stated as the claim, for runs in which the store does not fail;          *)
(* refuted by a QuerySpec without max_date, on which the executor raises    *)
(* KeyError.                                                               *)
(***************************************************************************)
\* work() called the random-sample executor
RandomCalled == \E k \in ExecutorCalls : calls[k].op = "execute_random_query"
\* the id queries of the random-sample executor
RandomIdQueries == {k \in At("db.fetchall") : calls[k].by = "execute_random_query"}
\* no relational-store call failed
StoreAnswered == \A k \in At("raise") : calls[k].arg \notin StoreFaults

C19_RandomNeverNull ==
  (RandomCalled /\ StoreAnswered) =>
    LET bounded == Has(params, "max_date") /\ params["max_date"] > 0
        inRange == {i \in PostIds : /\ Post(i).timestamp >= params.min_date
                                     /\ bounded => Post(i).timestamp <= params["max_date"]}
    IN /\ pc # "raised" /\ fault = "none"
       /\ \A k \in RandomIdQueries :
            calls[k].arg = (IF bounded THEN "both bounds" ELSE "lower bound")
       /\ Returned =>
            /\ ~posts.isNone
            /\ Cardinality(RandomIdQueries) = 1
            /\ {posts.rows[k].id : k \in DOMAIN posts.rows} \subseteq inRange
            /\ inRange = {} => posts.rows = <<>>

(***************************************************************************)
(* escape_for_sphinx on its own: the full-text executor escapes the body   *)
(* predicate of its query and puts it into the MATCH() argument            *)
(* (string_query.py:130-140, 389-400).                                     *)
(***************************************************************************)
\* the longest body predicate
MaxQueryLen == 2
\* the characters of a predicate: the special ones, a letter and a blank
QueryChars == SphinxSpecial \cup {"a", " "}
\* the predicates: every string of up to MaxQueryLen characters
QueryStrings == UNION {[1..n -> QueryChars] : n \in 0..MaxQueryLen}

InitEscape ==
  /\ pc = "escape_for_sphinx"
  /\ params \in {Merge([body_query |-> string], Defaults) : string \in QueryStrings}
  /\ deliveries = 0
  /\ queryExists = TRUE
  /\ isFinished = FALSE
  /\ status = InitialStatus
  /\ numRows = 0
  /\ resultsFile = NoFile
  /\ sphinx = "none"
  /\ posts = None
  /\ matches = <<>>
  /\ ids = <<>>
  /\ fault = "none"
  /\ calls = <<>>
  /\ api = NotRunning
  /\ migrate = NotRunning

\* line 132: self.escape_for_sphinx(query["body_query"]), and what it returns
call_escape_for_sphinx ==
  /\ pc = "escape_for_sphinx"
  /\ Goto("match",
          <<Call("execute_string_query", "escape_for_sphinx", params.body_query),
            Call("escape_for_sphinx", "return", escape_for_sphinx(params.body_query))>>)
  /\ UNCHANGED <<deliveries, dataset, sphinx, locals>>

\* lines 138-140: the MATCH() argument among the replacements
build_match ==
  /\ pc = "match"
  /\ Goto("built", <<Call("execute_string_query", "replacements", SphinxReplacements(params))>>)
  /\ UNCHANGED <<deliveries, dataset, sphinx, locals>>

NextEscape ==
  \/ call_escape_for_sphinx
  \/ build_match

SpecEscape == InitEscape /\ [][NextEscape]_vars

(***************************************************************************)
(* C20: escape_for_sphinx puts exactly one backslash before every          *)
(* occurrence of each of = ( ) | - ! @ ~ " & / \ ^ $ and leaves every      *)
(* other character as it is, so a string without these characters comes    *)
(* back unchanged; the escaped body predicate is what goes into MATCH().   *)
(***************************************************************************)
\* the string handed to escape_for_sphinx, and the string it returned
EscapeInput == calls[1].arg
EscapeOutput == calls[2].arg
\* the fourteen characters of the claim
EscapedChars ==
  {"=", "(", ")", "|", "-", "!", "@", "~", "\"", "&", "/", "\\", "^", "$"}
\* where character k of the input is in the output: one place further for
\* every special character up to and including it
EscapedPosition(k) ==
  k + Cardinality({j \in 1..k : EscapeInput[j] \in EscapedChars})

C20_EscapeForSphinx ==
  pc \in {"match", "built"} =>
    /\ EscapeInput = params.body_query
    /\ Len(EscapeOutput) =
         Len(EscapeInput) + Cardinality({j \in DOMAIN EscapeInput : EscapeInput[j] \in EscapedChars})
    /\ \A k \in DOMAIN EscapeInput :
         /\ EscapeOutput[EscapedPosition(k)] = EscapeInput[k]
         /\ EscapeInput[k] \in EscapedChars => EscapeOutput[EscapedPosition(k) - 1] = "\\"
    /\ (\A k \in DOMAIN EscapeInput : EscapeInput[k] \notin EscapedChars) =>
         EscapeOutput = EscapeInput
    /\ (pc = "built" /\ EscapeInput # <<>>) =>
         calls[3].arg = <<[chars |-> <<"@", "b", "o", "d", "y", " ">> \o EscapeOutput]>>

C20_Witness ==
  /\ pc = "built"
  /\ EscapeInput = <<"\\", "/">>
  /\ EscapeOutput = <<"\\", "\\", "\\", "/">>

(***************************************************************************)
(* C21: with the attribute filter "europe" the executor matches the posts  *)
(* whose country code is one of a fixed set of codes: a post with code     *)
(* "FR" is matched, a post with code "US" is not; with any other filter    *)
(* value it matches the posts whose code equals that value, and no others. *)
(***************************************************************************)
\* `matches` holds the rows of the initial query of the attribute executor
CountryInitialRows ==
  /\ CountryInitialQueries # {} /\ CountryFetchThreads = {}
  /\ pc # "raised"

C21_EuropeIsMembership ==
  /\ "FR" \in EuropeCodes /\ "US" \notin EuropeCodes /\ "europe" \notin EuropeCodes
  /\ CountryInitialRows =>
       LET wanted == IF params.country_flag = "europe" THEN EuropeCodes
                     ELSE {params.country_flag}
           dated == {i \in PostIds :
                       /\ Post(i).timestamp >= params.min_date
                       /\ params.max_date > 0 => Post(i).timestamp <= params.max_date}
       IN /\ {matches[k].id : k \in DOMAIN matches}
               = {i \in dated : Post(i).country_code \in wanted}
          /\ Len(matches) = Cardinality({matches[k].id : k \in DOMAIN matches})
          /\ \A i \in dated :
               /\ Post(i).country_code = "FR" => \E k \in DOMAIN matches : matches[k].id = i
               /\ Post(i).country_code = "US" => \A k \in DOMAIN matches : matches[k].id # i

C21_Witness ==
  /\ pc = "done"
  /\ CountryInitialRows
  /\ params.country_flag = "europe"
  /\ params.min_date = 0 /\ params.max_date = 0
  /\ {posts.rows[k].id : k \in DOMAIN posts.rows} = {i \in PostIds : Post(i).country_code = "FR"}
  /\ \E i \in PostIds : Post(i).country_code = "US"

(***************************************************************************)
(* The local API server (backend/lib/api.py): InternalAPI.run() listens on *)
(* a local socket, api_response() reads one request from a client and      *)
(* answers it, abort() asks the thread to stop.  The clients, the store    *)
(* and the worker pool are its environment.                                *)
(***************************************************************************)
\* clients that connect during one run of the server
MaxClients == 2
\* chunks one client delivers before it goes silent or closes
MaxChunks == 2
\* line 50: the server stops trying to bind after 300 seconds
BindWindow == 300
\* line 57: time.sleep(5.0) between two attempts to bind
RetrySleep == 5

\* the variables of the query worker, which the other programs never touch
worker == <<pc, deliveries, queryExists, isFinished, status, numRows, resultsFile,
            params, sphinx, posts, matches, ids, fault, calls>>
WorkerNotRunning ==
  /\ pc = "not running"
  /\ params = Defaults
  /\ deliveries = 0
  /\ queryExists = FALSE
  /\ isFinished = FALSE
  /\ status = InitialStatus
  /\ numRows = 0
  /\ resultsFile = NoFile
  /\ sphinx = "none"
  /\ posts = None
  /\ matches = <<>>
  /\ ids = <<>>
  /\ fault = "none"
  /\ calls = <<>>

\* what client.recv(1024) can deliver in one chunk; "" is the peer closing
RequestWorkers == "{\"request\": \"workers\"}"
RequestPosts == "{\"request\": \"posts\"}"
RequestThreads == "{\"request\": \"threads\"}"
RequestJobs == "{\"request\": \"jobs\"}"
RequestUnknown == "{\"request\": \"restart\"}"
RequestHead == "{\"request\": "
RequestTail == "\"jobs\"}"
NoRequestKey == "{\"query\": \"jobs\"}"
JsonNumber == "5"
JsonList == "[\"jobs\"]"
Blank == " "
Closed == ""
Chunks == {RequestWorkers, RequestPosts, RequestThreads, RequestJobs, RequestUnknown,
           RequestHead, RequestTail, NoRequestKey, JsonNumber, JsonList, Blank, Closed}
\* what else recv can do: time out after 2 seconds (line 104), fail with a
\* ConnectionError, or deliver bytes that are not ASCII
RecvFailures == {"socket.timeout", "ConnectionError", "UnicodeDecodeError"}

\* Python values read from JSON
Dict(d) == [type |-> "dict", value |-> d]
Number(n) == [type |-> "int", value |-> n]
Array(s) == [type |-> "list", value |-> s]
Bool(b) == [type |-> "bool", value |-> b]
JSONDecodeError == [type |-> "JSONDecodeError", value |-> 0]

\* json.loads(buffer) for the buffers the chunks can build: every other
\* concatenation of chunks is no JSON document
JsonLoadsObjects(buffer) ==
  CASE buffer = RequestWorkers -> Dict([request |-> "workers"])
    [] buffer = RequestPosts -> Dict([request |-> "posts"])
    [] buffer = RequestThreads -> Dict([request |-> "threads"])
    [] buffer = RequestJobs -> Dict([request |-> "jobs"])
    [] buffer = RequestHead \o RequestTail -> Dict([request |-> "jobs"])
    [] buffer = RequestUnknown -> Dict([request |-> "restart"])
    [] buffer = NoRequestKey -> Dict([query |-> "jobs"])
    [] buffer = JsonList -> Array(<<"jobs">>)
    [] OTHER -> JSONDecodeError
JsonLoads(buffer) ==
  CASE buffer = JsonNumber -> Number(5)
    [] OTHER -> JsonLoadsObjects(buffer)

\* `key in payload` (line 133): a key of a dict, an element of a list; a
\* number is not iterable
In(key, payload) ==
  CASE payload.type = "dict" -> [raised |-> "none", value |-> key \in DOMAIN payload.value]
    [] payload.type = "list" -> [raised |-> "none", value |-> key \in Range(payload.value)]
    [] OTHER -> [raised |-> "TypeError", value |-> FALSE]

\* the environment of process_request: the worker pool and the rows of the store
Pools == {<<>>, <<"StringQuery", "StringQuery", "ThreadScraper">>}
\* rows of the past day, each by its age in seconds
Ages == {<<>>, <<30, 1800, 40000>>}
Jobs == {<<>>, <<"query", "query", "thread">>}
\* what db.fetchall answers: the rows of the table asked for, or None
Rows(request) == IF request = "jobs" THEN Jobs ELSE Ages
FetchAll(rows) == {None} \cup {List(r) : r \in rows}

\* lines 157-164, 196-202: a count per name, and their sum
CountsByName(names) ==
  [name \in Range(names) \cup {"total"} |->
     IF name = "total" THEN Len(names) ELSE Counter(names, name)]

\* lines 177-188
CountsByAge(ages) ==
  [span \in {"1m", "1h", "1d"} |->
     Cardinality({k \in DOMAIN ages :
        CASE span = "1m" -> ages[k] < 60
          [] span = "1h" -> ages[k] < 3600
          [] span = "1d" -> TRUE})]

DatabaseUnavailable == Dict([error |-> "Database unavailable"])

\* lines 144-207
process_request(request, pool, items) ==
  CASE request = "workers" -> Dict(CountsByName(pool))
    [] request \in {"posts", "threads"} ->
         IF items.isNone THEN DatabaseUnavailable ELSE Dict(CountsByAge(items.rows))
    [] request = "jobs" ->
         IF items.isNone THEN DatabaseUnavailable ELSE Dict(CountsByName(items.rows))
    [] OTHER -> Bool(FALSE)

\* `not response` (line 137)
Not(value) ==
  CASE value.type = "dict" -> DOMAIN value.value = {}
    [] value.type = "bool" -> ~value.value
    [] OTHER -> FALSE

\* the two replies, as json.dumps writes them
InvalidJSON == [error |-> "Invalid JSON"]
Response(response) == [error |-> "false", response |-> response.value]

\* the thread before start(): class attributes of lines 11-12
ApiBefore(port) ==
  [pc |-> "run", port |-> port, looping |-> TRUE,
   has_time |-> TRUE, elapsed |-> 0,
   clients |-> 0, got |-> 0, buffer |-> "", sent |-> <<>>,
   since_abort |-> 0, fault |-> "none"]

InitApi ==
  /\ WorkerNotRunning
  /\ migrate = NotRunning
  /\ api \in {ApiBefore(port) : port \in {0, 4444}}

ApiGoto(next) ==
  /\ api' = [api EXCEPT !.pc = next]
  /\ UNCHANGED <<worker, migrate>>
ApiSet(next) ==
  /\ api' = next
  /\ UNCHANGED <<worker, migrate>>

\* lines 38-48
run_start ==
  /\ api.pc = "run"
  /\ IF api.port = 0
       THEN ApiGoto("returned")
       ELSE ApiSet([api EXCEPT !.pc = "bind", !.has_time = TRUE, !.elapsed = 0])

\* line 55: has_time and self.looping
Retry(has_time, looping) == has_time /\ looping

\* lines 49-64: one attempt to bind
run_bind ==
  /\ api.pc = "bind"
  /\ api.has_time
  /\ LET has_time == api.elapsed < BindWindow
     IN \E bound \in BOOLEAN :
          IF bound
            THEN ApiSet([api EXCEPT !.pc = "listen", !.has_time = TRUE, !.elapsed = 0])
            ELSE IF Retry(has_time, api.looping)
                   THEN ApiSet([api EXCEPT !.pc = "sleep", !.has_time = has_time])
                   ELSE ApiSet([api EXCEPT !.pc = "returned", !.has_time = has_time])

\* line 57-58
run_sleep ==
  /\ api.pc = "sleep"
  /\ ApiSet([api EXCEPT !.pc = "bind", !.elapsed = @ + RetrySleep])

\* lines 66-68
run_listen ==
  /\ api.pc = "listen"
  /\ ApiGoto("while")

\* `while True:` in place of `while self.looping:`
run_while_true ==
  /\ api.pc = "while"
  /\ ApiGoto("accept")

\* line 71: while self.looping
run_while ==
  /\ api.pc = "while"
  /\ ApiGoto(IF api.looping THEN "accept" ELSE "shutdown")

\* lines 73-79: accept() returns a client or times out after 5 seconds
run_accept ==
  /\ api.pc = "accept"
  /\ LET since == IF api.looping THEN api.since_abort ELSE api.since_abort + 1
     IN \/ ApiSet([api EXCEPT !.pc = IF ~api.looping THEN "shutdown" ELSE "while",
                              !.since_abort = since])
        \/ /\ api.clients < MaxClients
           /\ ApiSet([api EXCEPT !.pc = "recv", !.clients = @ + 1, !.since_abort = since,
                                 !.got = 0, !.buffer = "", !.sent = <<>>])

\* lines 106-127: one pass of the reading loop, and what follows when it ends
api_response_recv ==
  /\ api.pc = "recv"
  /\ \/ \E failure \in RecvFailures :
          IF failure = "UnicodeDecodeError"
            THEN ApiSet([api EXCEPT !.pc = "raised", !.fault = failure])
            ELSE ApiGoto("close")
     \/ \E data \in Chunks :
          /\ data # Closed => api.got < MaxChunks
          /\ LET buffer == api.buffer \o data
                 read == [api EXCEPT !.buffer = buffer,
                                     !.got = IF data = Closed THEN @ ELSE @ + 1]
             IN IF data = Closed \/ data = Blank
                  THEN ApiSet([read EXCEPT !.pc = IF buffer = "" THEN "close" ELSE "respond"])
                  ELSE IF JsonLoads(buffer).type # "JSONDecodeError"
                         THEN ApiSet([read EXCEPT !.pc = "respond"])
                         ELSE ApiSet(read)

\* lines 131-142
api_response_reply ==
  /\ api.pc = "respond"
  /\ LET payload == JsonLoads(api.buffer)
         Send(reply) == ApiSet([api EXCEPT !.pc = "close", !.sent = Append(@, reply)])
         Fail(exception) == ApiSet([api EXCEPT !.pc = "raised", !.fault = exception])
     IN IF payload.type = "JSONDecodeError"
          THEN Send(InvalidJSON)
          ELSE IF In("request", payload).raised # "none"
                 THEN Fail(In("request", payload).raised)
                 ELSE IF ~In("request", payload).value
                        THEN Send(InvalidJSON)
                        ELSE IF payload.type # "dict"
                               THEN Fail("TypeError")
                               ELSE \E pool \in Pools, items \in FetchAll(Rows(payload.value.request)) :
                                      LET response == process_request(payload.value.request, pool, items)
                                      IN IF Not(response)
                                           THEN Send(InvalidJSON)
                                           ELSE Send(Response(response))

\* line 82
run_client_close ==
  /\ api.pc = "close"
  /\ ApiGoto("while")

\* line 84
run_shutdown ==
  /\ api.pc = "shutdown"
  /\ ApiGoto("returned")

\* lines 86-90, called from another thread
abort ==
  /\ api.pc \notin {"returned", "raised"}
  /\ api.looping
  /\ ApiSet([api EXCEPT !.looping = FALSE])

\* the steps of the server thread
run ==
  \/ run_start
  \/ run_bind
  \/ run_sleep
  \/ run_listen
  \/ run_while
  \/ run_accept
  \/ api_response_recv
  \/ api_response_reply
  \/ run_client_close
  \/ run_shutdown

NextApi ==
  \/ run
  \/ abort

SpecApi == InitApi /\ [][NextApi]_vars

\* the thread keeps running while it can take a step; accept() and recv()
\* return by their timeouts
SpecApiFair == SpecApi /\ WF_vars(run)

\* api_response has ended for the client it was given: it returned, or an
\* exception left it
Answered == api.clients > 0 /\ api.pc \in {"close", "raised"}
\* the request names process_request answers (lines 155, 168, 190)
RequestNames == {"workers", "posts", "threads", "jobs"}

(***************************************************************************)
(* C22: api_response answers every request that delivered data with        *)
(* exactly one reply: error false and a response when the buffer parses as *)
(* JSON, has a "request" key and names one of workers, posts, threads or   *)
(* jobs; error "Invalid JSON" when the JSON is unparsable, the "request"   *)
(* key is missing or the name is unknown; with no data, no reply is sent.  *)
(***************************************************************************)
C22_OneReplyPerRequest ==
  Answered =>
    LET payload == JsonLoads(api.buffer)
        named == /\ payload.type = "dict"
                 /\ "request" \in DOMAIN payload.value
                 /\ payload.value.request \in RequestNames
    IN IF api.buffer = ""
         THEN api.sent = <<>>
         ELSE /\ Len(api.sent) = 1
              /\ IF named
                   THEN DOMAIN api.sent[1] = {"error", "response"} /\ api.sent[1].error = "false"
                   ELSE DOMAIN api.sent[1] = {"error"} /\ api.sent[1].error = "Invalid JSON"

\* run() has ended: it returned, or an exception of api_response left it
Terminated == api.pc \in {"returned", "raised"}
\* line 56-57: the bind loop decides to try again
Retries == api.pc = "bind" /\ api'.pc = "sleep"

MaxMinor == 12
\* line 27: zfill(3)
Width == 3

\* a string is a sequence of characters, so that it can be split and padded
DigitChars == <<"0", "1", "2", "3", "4", "5", "6", "7", "8", "9">>
\* the code point of a character, by which Python compares strings
Ord(char) ==
  IF char = "." THEN 46 ELSE 47 + CHOOSE d \in DOMAIN DigitChars : DigitChars[d] = char

\* str(n)
RECURSIVE Str(_)
Str(n) == IF n < 10 THEN <<DigitChars[n + 1]>> ELSE Str(n \div 10) \o <<DigitChars[(n % 10) + 1]>>

\* int(text)
RECURSIVE Value(_)
Value(text) ==
  IF text = <<>> THEN 0
  ELSE 10 * Value(SubSeq(text, 1, Len(text) - 1)) + (Ord(text[Len(text)]) - 48)

\* text.split(".")
RECURSIVE Split(_)
Split(text) ==
  IF \A k \in DOMAIN text : text[k] # "."
    THEN <<text>>
    ELSE LET dot == CHOOSE k \in DOMAIN text : text[k] = "." /\ \A j \in 1..(k - 1) : text[j] # "."
         IN <<SubSeq(text, 1, dot - 1)>> \o Split(SubSeq(text, dot + 1, Len(text)))

\* text.zfill(width)
RECURSIVE zfill(_, _)
zfill(text, width) == IF Len(text) >= width THEN text ELSE zfill(<<"0">> \o text, width)

\* a < b for two Python strings
RECURSIVE StrLess(_, _)
StrLess(a, b) ==
  IF b = <<>> THEN FALSE
  ELSE IF a = <<>> THEN TRUE
  ELSE IF a[1] # b[1] THEN Ord(a[1]) < Ord(b[1])
  ELSE StrLess(Tail(a), Tail(b))
StrLessEq(a, b) == a = b \/ StrLess(a, b)

\* the version as written, unpadded
make_version_comparable_unpadded(version) ==
  Split(version)[1] \o <<".">> \o Split(version)[2]

\* lines 25-27
make_version_comparable(version) ==
  zfill(Split(version)[1], Width) \o <<".">> \o zfill(Split(version)[2], Width)

\* the text of version major.minor
VersionText(major, minor) == Str(major) \o <<".">> \o Str(minor)
Versions == {VersionText(major, minor) : major \in 1..2, minor \in 9..MaxMinor}
\* a file that does not exist
Absent == <<>>
\* line 47: the version of an installation without .current-version
DefaultVersion == VersionText(1, 9)

\* helper-scripts/migrate/migrate-<minimum>-<target>.py for every step of one
\* minor version
MigrateFile(minimum, target) == [minimum |-> minimum, target |-> target]
MigrateFiles ==
  {MigrateFile(VersionText(1, minor), VersionText(1, minor + 1)) : minor \in 9..(MaxMinor - 1)}
\* the orders in which glob() can list the scripts that exist
Globs ==
  UNION {{files \in [1..n -> MigrateFiles] : \A j, k \in 1..n : j # k => files[j] # files[k]} :
           n \in 0..Cardinality(MigrateFiles)}

\* line 93
Relevant(file, current_version_c, target_version_c) ==
  /\ StrLessEq(current_version_c, make_version_comparable(file.minimum))
  /\ StrLessEq(make_version_comparable(file.target), target_version_c)

\* lines 89-94: the relevant files, in the order of glob()
RECURSIVE Collect(_, _, _)
Collect(files, current_version_c, target_version_c) ==
  IF files = <<>> THEN <<>>
  ELSE (IF Relevant(files[1], current_version_c, target_version_c) THEN <<files[1]>> ELSE <<>>)
       \o Collect(Tail(files), current_version_c, target_version_c)

\* the key of line 101
SortKey(file) == make_version_comparable(file.minimum)

\* the files as glob() listed them
Unsorted(files) == files

\* line 101: sorted(), which keeps the order of files with equal keys
RECURSIVE Sorted(_)
Sorted(files) ==
  IF files = <<>> THEN <<>>
  ELSE LET last == files[Len(files)]
           rest == Sorted(SubSeq(files, 1, Len(files) - 1))
           before == Cardinality({k \in DOMAIN rest : StrLessEq(SortKey(rest[k]), SortKey(last))})
       IN SubSeq(rest, 1, before) \o <<last>> \o SubSeq(rest, before + 1, Len(rest))

\* the agent when it is started
MigrateBefore(current_file, target_file, files, yes) ==
  [pc |-> "versions",
   current_version_file |-> current_file, target_version_file |-> target_file,
   glob |-> files, yes |-> yes,
   was |-> current_file,
   current_version |-> Absent, target_version |-> Absent,
   migrate_to_run |-> <<>>, next |-> 1,
   stopped |-> FALSE, pip |-> FALSE, ran |-> <<>>, exit |-> "none"]

InitMigrate ==
  /\ WorkerNotRunning
  /\ api = NotRunning
  /\ migrate \in {MigrateBefore(current_file, target_file, files, yes) :
                    current_file \in Versions \cup {Absent},
                    target_file \in Versions \cup {Absent},
                    files \in Globs, yes \in BOOLEAN}

MigrateSet(next) ==
  /\ migrate' = next
  /\ UNCHANGED <<worker, api>>
\* exit(code)
Exit(code) == MigrateSet([migrate EXCEPT !.pc = "exited", !.exit = code])

\* lines 42-60
migrate_versions ==
  /\ migrate.pc = "versions"
  /\ IF migrate.target_version_file = Absent
       THEN MigrateSet([migrate EXCEPT
              !.pc = "exited", !.exit = 1,
              !.current_version = IF migrate.current_version_file = Absent
                                    THEN DefaultVersion ELSE migrate.current_version_file])
       ELSE MigrateSet([migrate EXCEPT
              !.pc = "guards",
              !.current_version = IF migrate.current_version_file = Absent
                                    THEN DefaultVersion ELSE migrate.current_version_file,
              !.target_version = migrate.target_version_file])

\* lines 73-83
migrate_guards ==
  /\ migrate.pc = "guards"
  /\ LET current_version_c == make_version_comparable(migrate.current_version)
         target_version_c == make_version_comparable(migrate.target_version)
     IN IF migrate.current_version = migrate.target_version
          THEN Exit(0)
          ELSE IF SubSeq(current_version_c, 1, 3) # SubSeq(target_version_c, 1, 3)
                 THEN Exit(1)
                 ELSE IF StrLess(target_version_c, current_version_c)
                        THEN Exit(1)
                        ELSE MigrateSet([migrate EXCEPT !.pc = "collect"])

\* lines 88-105
migrate_collect ==
  /\ migrate.pc = "collect"
  /\ LET migrate_to_run == Collect(migrate.glob, make_version_comparable(migrate.current_version),
                                   make_version_comparable(migrate.target_version))
     IN IF migrate_to_run = <<>>
          THEN Exit(0)
          ELSE MigrateSet([migrate EXCEPT !.pc = "prompt", !.migrate_to_run = Sorted(migrate_to_run)])

\* lines 110-115
migrate_prompt ==
  /\ migrate.pc = "prompt"
  /\ \E input \in {"y", "n"} :
       IF ~migrate.yes /\ input # "y"
         THEN Exit(0)
         ELSE MigrateSet([migrate EXCEPT !.pc = "stop"])

\* lines 117-123
migrate_stop ==
  /\ migrate.pc = "stop"
  /\ \E error \in BOOLEAN :
       IF error
         THEN MigrateSet([migrate EXCEPT !.pc = "exited", !.exit = 1, !.stopped = TRUE])
         ELSE MigrateSet([migrate EXCEPT !.pc = "pip", !.stopped = TRUE])

\* lines 128-133
migrate_pip ==
  /\ migrate.pc = "pip"
  /\ \E returncode \in {0, 1} :
       IF returncode # 0
         THEN MigrateSet([migrate EXCEPT !.pc = "exited", !.exit = 1, !.pip = TRUE])
         ELSE MigrateSet([migrate EXCEPT !.pc = "loop", !.pip = TRUE])

\* lines 141-155: the next script, if there is one
migrate_script ==
  /\ migrate.pc = "loop"
  /\ migrate.next <= Len(migrate.migrate_to_run)
  /\ LET file == migrate.migrate_to_run[migrate.next]
     IN \E returncode \in {0, 1} :
          LET ran == Append(migrate.ran, [file |-> file, returncode |-> returncode])
          IN IF returncode # 0
               THEN MigrateSet([migrate EXCEPT !.pc = "exited", !.exit = 1, !.ran = ran])
               ELSE MigrateSet([migrate EXCEPT !.pc = "store", !.ran = ran])

\* lines 157-159
migrate_store ==
  /\ migrate.pc = "store"
  /\ MigrateSet([migrate EXCEPT
       !.pc = "loop", !.next = @ + 1,
       !.current_version_file = migrate.migrate_to_run[migrate.next].target])

\* lines 164-171: after the last script
migrate_copy ==
  /\ migrate.pc = "loop"
  /\ migrate.next > Len(migrate.migrate_to_run)
  /\ MigrateSet([migrate EXCEPT
       !.pc = "exited", !.exit = 0,
       !.current_version_file = migrate.target_version_file])

NextMigrate ==
  \/ migrate_versions
  \/ migrate_guards
  \/ migrate_collect
  \/ migrate_prompt
  \/ migrate_stop
  \/ migrate_pip
  \/ migrate_script
  \/ migrate_store
  \/ migrate_copy

SpecMigrate == InitMigrate /\ [][NextMigrate]_vars

\* a version as numbers: its major and its minor version
Numeric(version) == <<Value(Split(version)[1]), Value(Split(version)[2])>>
\* a is older than b, by major then minor
Older(a, b) == a[1] < b[1] \/ (a[1] = b[1] /\ a[2] < b[2])
\* the scripts that have been run so far, and the last one that succeeded
Failed == {k \in DOMAIN migrate.ran : migrate.ran[k].returncode # 0}
\* what .current-version holds after `done` scripts succeeded
Holds(done) == IF done = 0 THEN migrate.was ELSE migrate.migrate_to_run[done].target

(***************************************************************************)
(* C24: the selected migration scripts run one at a time in ascending      *)
(* order of their starting version; after each script that succeeded       *)
(* .current-version holds that script's target version; at the first       *)
(* script that fails the run halts with exit code 1, no later script runs  *)
(* and .current-version holds the target of the last script that           *)
(* succeeded, or what it held before if none did.                          *)
(***************************************************************************)
C24_ScriptsInOrder ==
  LET to_run == migrate.migrate_to_run
      ran == migrate.ran
      selected == Collect(migrate.glob, make_version_comparable(migrate.current_version),
                          make_version_comparable(migrate.target_version))
  IN /\ to_run # <<>> =>
          /\ Range(to_run) = Range(selected) /\ Len(to_run) = Len(selected)
          /\ \A j, k \in DOMAIN to_run :
                j < k => ~Older(Numeric(to_run[k].minimum), Numeric(to_run[j].minimum))
     /\ Len(ran) <= Len(to_run)
     /\ \A k \in DOMAIN ran : ran[k].file = to_run[k]
     /\ migrate.pc = "store" =>
          /\ Failed = {} /\ Len(ran) = migrate.next
          /\ migrate.current_version_file = Holds(migrate.next - 1)
     /\ migrate.pc = "loop" =>
          /\ Failed = {} /\ Len(ran) = migrate.next - 1
          /\ migrate.current_version_file = Holds(Len(ran))
     /\ Failed # {} =>
          /\ Failed = {Len(ran)}
          /\ migrate.pc = "exited" /\ migrate.exit = 1
          /\ migrate.current_version_file = Holds(Len(ran) - 1)

C24_Witness ==
  /\ migrate.pc = "exited" /\ migrate.exit = 1
  /\ Len(migrate.ran) = 3 /\ Failed = {3}
  /\ migrate.glob[1].minimum = VersionText(1, 11)
  /\ migrate.ran[1].file.minimum = VersionText(1, 9)
  /\ migrate.current_version_file = VersionText(1, 11)
  /\ migrate.was = Absent

\* the comparison of lines 77-81 and 93 against the comparison of the numbers,
\* for every two versions of the fixture
ComparedAsNumbers ==
  /\ \A a, b \in Versions :
        /\ StrLess(make_version_comparable(a), make_version_comparable(b)) <=> Older(Numeric(a), Numeric(b))
        /\ SubSeq(make_version_comparable(a), 1, 3) = SubSeq(make_version_comparable(b), 1, 3)
             <=> Numeric(a)[1] = Numeric(b)[1]
  /\ StrLess(make_version_comparable(VersionText(1, 9)), make_version_comparable(VersionText(1, 10)))

(***************************************************************************)
(* C25: the agent runs no migration script, does not stop 4CAT and leaves  *)
(* .current-version as it was when the current version equals the target   *)
(* (exit 0), when the major versions differ (exit 1) or when the current   *)
(* version is more recent than the target (exit 1); versions are compared  *)
(* as numbers, by major then minor, so 1.9 is older than 1.10.             *)
(***************************************************************************)
C25_NothingToMigrate ==
  /\ ComparedAsNumbers
  /\ migrate.pc \notin {"not running", "versions"} /\ migrate.target_version # Absent =>
       LET current == Numeric(migrate.current_version)
           target == Numeric(migrate.target_version)
       IN current = target \/ current[1] # target[1] \/ Older(target, current) =>
            /\ migrate.ran = <<>>
            /\ ~migrate.stopped /\ ~migrate.pip
            /\ migrate.current_version_file = migrate.was
            /\ migrate.pc \in {"guards", "exited"}
            /\ migrate.pc = "exited" => migrate.exit = IF current = target THEN 0 ELSE 1

C25_Witness ==
  /\ migrate.pc = "exited" /\ migrate.exit = 1
  /\ migrate.current_version = VersionText(1, 10)
  /\ migrate.target_version = VersionText(1, 9)
  /\ Len(migrate.glob) = Cardinality(MigrateFiles)

====
